---- MODULE Spec2Model ----
(***************************************************************************)
(* Model of plotting.py: the frame sampler, the periodic-image renderers   *)
(* plot_pos_2D / plot_pos_3D, the frame-writing loop and the GIF-encoding  *)
(* loop of GIF_2D / GIF_3D.                                                *)
(*                                                                         *)
(* Coordinates and the box length are floats in the program; the model     *)
(* uses small integers for them.  relative_pos is kept at its default      *)
(* (False): the pair lines come from sim.atomic_distances, which is not    *)
(* part of plotting.py.                                                    *)
(***************************************************************************)
EXTENDS Integers, Sequences, FiniteSets, TLC

\* ---------------------------------------------------------------- bounds
MaxTsteps == 3      \* trajectory lengths 1..MaxTsteps (and the 101 of the docs)
MaxFrames == 5      \* num_frames in 0..MaxFrames
MaxL == 1           \* box_dim / L in -1..MaxL
MaxCoord == 1       \* every coordinate of a particle in 0..MaxCoord
MaxParticles == 1   \* particles per timestep in 0..MaxParticles
MaxDeletes == 1     \* frame files removed from tmp-plot by another process

\* ------------------------------------------------------ program constants
FormatWidth == 5    \* "{:05d}"
DurationBudget == 3 \* duration=3/num_frames

\* the box lengths a caller passes; nothing in plotting.py checks the sign
BoxDims == (-1)..MaxL

GIFs == {"GIF_2D", "GIF_3D"}
Plots == {"plot_pos_2D", "plot_pos_3D"}

\* -------------------------------------------------------------- helpers
\* int(a/b) for b > 0: float division then truncation toward zero
Trunc(a, b) == IF a >= 0 THEN a \div b ELSE -((-a) \div b)

RECURSIVE Digits(_)
\* the decimal digits of n >= 0, most significant first
Digits(n) == IF n < 10 THEN <<n>> ELSE Append(Digits(n \div 10), n % 10)

RECURSIVE ZeroPad(_, _)
ZeroPad(ds, w) == IF Len(ds) >= w THEN ds ELSE ZeroPad(<<0>> \o ds, w)

\* "{:05d}".format(n): at least FormatWidth digits, zero-padded on the left
Format05d(n) == ZeroPad(Digits(n), FormatWidth)

\* ---------------------------------------------------------- frame sampler
\* [int(i*(num_tsteps-1)/(num_frames-1)) for i in range(num_frames-1)] + [int(num_tsteps)-1]
\* range(num_frames-1) is empty for num_frames <= 1, so nothing is divided then.
SaveFrameNoLast(num_tsteps, num_frames) ==
    [i \in 1..(num_frames - 1) |-> Trunc((i - 1) * (num_tsteps - 1), num_frames - 1)]

SaveFrameByFrames(num_tsteps, num_frames) ==
    [i \in 1..num_frames |-> Trunc((i - 1) * (num_tsteps - 1), num_frames)]

SaveFrame(num_tsteps, num_frames) ==
    [i \in 1..(num_frames - 1) |-> Trunc((i - 1) * (num_tsteps - 1), num_frames - 1)]
        \o <<num_tsteps - 1>>

\* ------------------------------------------------------------- the canvas
\* One artist per ax.plot call: the data it was given and its format string.
\* A 2D axis has no z data; a 3D axis given no zs uses zs=0.
Artist(xs, ys, zs, fmt) == [xs |-> xs, ys |-> ys, zs |-> zs, fmt |-> fmt]
Pt2(x, y, fmt) == Artist(<<x>>, <<y>>, <<>>, fmt)
Pt3(x, y, z, fmt) == Artist(<<x>>, <<y>>, <<z>>, fmt)

\* axis limits as <<numerator lo, numerator hi, denominator>>
DefaultLim == <<0, 1, 1>>

\* fig.add_subplot(111) / fig.add_subplot(111, projection='3d'): an empty axis
NewAxis(proj) == [proj |-> proj, lines |-> <<>>, title |-> "none",
                  xlim |-> DefaultLim, ylim |-> DefaultLim, zlim |-> DefaultLim]

\* plt.cla(): the current axis loses its artists, title and limits
ClaNoop(a) == a

Cla(a) == NewAxis(a.proj)

SetTitle(a, t) == [a EXCEPT !.title = t]

\* ------------------------------------------------------------ plot_pos_2D
Particle2DCentralOnly(p, L, central_box) ==
    IF central_box THEN << Pt2(p[1], p[2], "k.") >>
    ELSE << Pt2(p[1]    , p[2]    , "r."),
            Pt2(p[1] + L, p[2]    , "r."), Pt2(p[1]    , p[2] + L, "r."),
            Pt2(p[1] + L, p[2] + L, "r."), Pt2(p[1] - L, p[2]    , "r."),
            Pt2(p[1]    , p[2] - L, "r."), Pt2(p[1] - L, p[2] - L, "r."),
            Pt2(p[1] - L, p[2] + L, "r."), Pt2(p[1] + L, p[2] - L, "r.") >>

\* the body of "for i in range(pos.shape[0])" for one particle p
Particle2D(p, L, central_box) ==
    << IF central_box THEN Pt2(p[1], p[2], "k.") ELSE Pt2(p[1], p[2], "r."),
       Pt2(p[1] + L, p[2]    , "r."),
       Pt2(p[1]    , p[2] + L, "r."),
       Pt2(p[1] + L, p[2] + L, "r."),
       Pt2(p[1] - L, p[2]    , "r."),
       Pt2(p[1]    , p[2] - L, "r."),
       Pt2(p[1] - L, p[2] - L, "r."),
       Pt2(p[1] - L, p[2] + L, "r."),
       Pt2(p[1] + L, p[2] - L, "r.") >>

RECURSIVE Particles2D(_, _, _, _)
Particles2D(pos, i, L, central_box) ==
    IF i > Len(pos) THEN <<>>
    ELSE Particle2D(pos[i], L, central_box) \o Particles2D(pos, i + 1, L, central_box)

Outline2D(L) == Artist(<<0, 0, L, L, 0>>, <<0, L, L, 0, 0>>, <<>>, "g-")

PlotPos2D(a, pos, L, central_box) ==
    [a EXCEPT !.lines = a.lines \o Particles2D(pos, 1, L, central_box)
                          \o (IF central_box THEN <<Outline2D(L)>> ELSE <<>>),
              !.xlim = <<-L, 3 * L, 2>>,
              !.ylim = <<-L, 3 * L, 2>>]

\* ------------------------------------------------------------ plot_pos_3D
\* pos[i,2] on a particle with two coordinates raises IndexError
HasZ(p) == Len(p) >= 3

\* "if central_box: ax.plot(pos[i,0], pos[i,1], ".", color="black")": two
\* positional data arguments on a 3D axis, so the point is drawn at zs=0.
Centre3D(p, central_box) ==
    IF central_box THEN Pt3(p[1], p[2], 0, "k.") ELSE Pt3(p[1], p[2], p[3], "r.")

\* the 26 ax.plot calls under "if outer_boxes:", in source order
Outer3D(p, L) ==
    << Pt3(p[1] + L, p[2]    , p[3]    , "r."),
       Pt3(p[1]    , p[2] + L, p[3]    , "r."),
       Pt3(p[1]    , p[2]    , p[3] + L, "r."),
       Pt3(p[1] + L, p[2] + L, p[3]    , "r."),
       Pt3(p[1]    , p[2] + L, p[3] + L, "r."),
       Pt3(p[1] + L, p[2]    , p[3] + L, "r."),
       Pt3(p[1] + L, p[2] + L, p[3] + L, "r."),
       Pt3(p[1] - L, p[2]    , p[3]    , "r."),
       Pt3(p[1]    , p[2] - L, p[3]    , "r."),
       Pt3(p[1]    , p[2]    , p[3] - L, "r."),
       Pt3(p[1] - L, p[2] - L, p[3]    , "r."),
       Pt3(p[1] - L, p[2]    , p[3] - L, "r."),
       Pt3(p[1]    , p[2] - L, p[3] - L, "r."),
       Pt3(p[1] - L, p[2] - L, p[3] - L, "r."),
       Pt3(p[1] - L, p[2] + L, p[3]    , "r."),
       Pt3(p[1] + L, p[2] - L, p[3]    , "r."),
       Pt3(p[1] - L, p[2]    , p[3] + L, "r."),
       Pt3(p[1] + L, p[2]    , p[3] - L, "r."),
       Pt3(p[1]    , p[2] + L, p[3] - L, "r."),
       Pt3(p[1]    , p[2] - L, p[3] + L, "r."),
       Pt3(p[1] + L, p[2] - L, p[3] - L, "r."),
       Pt3(p[1] - L, p[2] + L, p[3] - L, "r."),
       Pt3(p[1] - L, p[2] - L, p[3] + L, "r."),
       Pt3(p[1] - L, p[2] + L, p[3] + L, "r."),
       Pt3(p[1] + L, p[2] - L, p[3] + L, "r."),
       Pt3(p[1] + L, p[2] + L, p[3] - L, "r.") >>

\* what one iteration of the particle loop draws; raised = it hit IndexError
Particle3D(p, L, central_box, outer_boxes) ==
    IF ~central_box /\ ~HasZ(p) THEN [drawn |-> <<>>, raised |-> TRUE]
    ELSE IF ~outer_boxes THEN [drawn |-> <<Centre3D(p, central_box)>>, raised |-> FALSE]
    ELSE IF ~HasZ(p) THEN [drawn |-> <<Centre3D(p, central_box)>>, raised |-> TRUE]
    ELSE [drawn |-> <<Centre3D(p, central_box)>> \o Outer3D(p, L), raised |-> FALSE]

RECURSIVE Particles3D(_, _, _, _, _)
Particles3D(pos, i, L, central_box, outer_boxes) ==
    IF i > Len(pos) THEN [drawn |-> <<>>, raised |-> FALSE]
    ELSE LET one == Particle3D(pos[i], L, central_box, outer_boxes)
         IN  IF one.raised THEN one
             ELSE LET rest == Particles3D(pos, i + 1, L, central_box, outer_boxes)
                  IN  [drawn |-> one.drawn \o rest.drawn, raised |-> rest.raised]

Outline3D(L) ==
    << Artist(<<0, L, L, 0, 0>>, <<0, 0, L, L, 0>>, <<0, 0, 0, 0, 0>>, "g-"),
       Artist(<<0, 0, L, L>>, <<0, 0, 0, 0>>, <<0, L, L, 0>>, "g-"),
       Artist(<<0, 0, 0>>, <<0, L, L>>, <<L, L, 0>>, "g-"),
       Artist(<<0, L, L>>, <<L, L, L>>, <<L, L, 0>>, "g-"),
       Artist(<<L, L>>, <<0, L>>, <<L, L>>, "g-") >>

\* the limits when the particle loop ends: set_xlim(-L, 2*L) etc. run inside
\* "if outer_boxes:" once per particle
LimInLoop(a, pos, L, outer_boxes) ==
    IF outer_boxes /\ Len(pos) >= 1
    THEN [a EXCEPT !.xlim = <<-L, 2 * L, 1>>, !.ylim = <<-L, 2 * L, 1>>,
                   !.zlim = <<-L, 2 * L, 1>>]
    ELSE a

\* ax.set_xlim(0, L); ax.set_ylim(0, L); ax.set_zlim(0, L), after the loop and
\* outside every condition
LimAfterLoop(a, L) ==
    [a EXCEPT !.xlim = <<0, L, 1>>, !.ylim = <<0, L, 1>>, !.zlim = <<0, L, 1>>]

\* the axis plot_pos_3D leaves, and whether it raised IndexError
PlotPos3D(a, pos, L, central_box, outer_boxes) ==
    LET loop == Particles3D(pos, 1, L, central_box, outer_boxes)
        a1 == [a EXCEPT !.lines = a.lines \o loop.drawn]
    IN  IF loop.raised THEN [ax |-> a1, raised |-> TRUE]
        ELSE LET a2 == LimAfterLoop(LimInLoop(a1, pos, L, outer_boxes), L)
                 a3 == IF central_box
                       THEN [a2 EXCEPT !.lines = a2.lines \o Outline3D(L)]
                       ELSE a2
             IN  [ax |-> a3, raised |-> FALSE]

\* --------------------------------------------------- the trajectory provider
\* sim.load_data(data_file): a dataset is named by its length, the number of
\* coordinates per particle and the number of particles; particle i at
\* timestep t (both 0-based) sits at coordinate j = (t + i + j) mod (MaxCoord+1).
Datasets ==
    [tsteps : (1..MaxTsteps) \cup {101}, dim : {2, 3}, n : 0..MaxParticles]

PosAt(d, t) ==
    [i \in 1..d.n |-> [j \in 1..d.dim |-> (t + i + j) % (MaxCoord + 1)]]

\* time[t]; the title shows it as "dimensionless t={:0.3f}"
TimeAt(d, t) == t

\* every pos array a caller can hand to plot_pos_2D / plot_pos_3D
RECURSIVE Tuples(_, _)
Tuples(S, k) ==
    IF k = 0 THEN {<<>>}
    ELSE {Append(t, x) : t \in Tuples(S, k - 1), x \in S}

PosArrays ==
    UNION {Tuples(Tuples(0..MaxCoord, d), n) : d \in {2, 3}, n \in 0..MaxParticles}

\* --------------------------------------------------------------- the state
VARIABLES
    call,         \* the function of plotting.py that is called
    data_file,    \* GIF_*: the dataset sim.load_data returns
    num_frames,   \* GIF_*: argument
    box_dim,      \* GIF_*: box_dim; plot_pos_*: L
    pos,          \* plot_pos_*: the pos argument
    central_box,  \* plot_pos_*: argument (GIF_* leaves the default True)
    outer_boxes,  \* plot_pos_3D: argument (GIF_* leaves the default False)
    pc,           \* position in the called function
    save_frame,   \* GIF_*: timesteps in which to save frames
    dir,          \* tmp-plot: "absent", "preexisting" or "created" by this run
    files,        \* tmp-plot: file name -> image
    ax,           \* the axis being drawn on
    f,            \* loop index of the frame loop, then of the encode loop
    writer,       \* the imageio writer and the frames appended to it
    reads,        \* the file names imageio.imread returned an image for, in order
    written,      \* the savefig calls of this run, in order: name and image
    error,        \* the exception that ended the call, or "none"
    deletes       \* frame files another process has removed so far

vars == <<call, data_file, num_frames, box_dim, pos, central_box, outer_boxes, pc,
          save_frame, dir, files, ax, f, writer, reads, written, error, deletes>>

NoAxis == NewAxis("none")
NoWriter == [open |-> FALSE, duration |-> <<0, 1>>, frames |-> <<>>]
NoDataset == [tsteps |-> 1, dim |-> 2, n |-> 0]

Proj(c) == IF c \in {"GIF_2D", "plot_pos_2D"} THEN "2d" ELSE "3d"

\* "tmp-plot/pair_int_2D{:05d}.png".format(f) / "tmp-plot/pair_int_3D{:05d}.png".format(f):
\* the dimensionality tag and the formatted digits (prefix and suffix are fixed)
FrameNameByTimestep(c, k, t) ==
    [tag |-> IF c = "GIF_2D" THEN "2D" ELSE "3D", digits |-> Format05d(t)]

FrameName(c, k, t) ==
    [tag |-> IF c = "GIF_2D" THEN "2D" ELSE "3D", digits |-> Format05d(k)]

\* the k-th (0-based) index of "for f in range(len(save_frame))"
EncodeIndexFromPlan(sf, k) == sf[k + 1]

EncodeIndex(sf, k) == k

\* duration=3/num_frames: the divisor
DurationDivisorOffByOne(n) == n - 1

DurationDivisor(n) == n

\* imageio.imread(filename): the image, or FileNotFoundError
ImreadBlankOnMissing(fs, name) ==
    IF name \in DOMAIN fs THEN [raised |-> FALSE, image |-> fs[name]]
    ELSE [raised |-> FALSE, image |-> NoAxis]

Imread(fs, name) ==
    IF name \in DOMAIN fs THEN [raised |-> FALSE, image |-> fs[name]]
    ELSE [raised |-> TRUE, image |-> NoAxis]

\* the axis after plot_pos_2D(ax, pos[t], box_dim) / plot_pos_3D(ax, pos[t], box_dim)
\* with the default flags, and ax.set_title(...)
RenderFrame(c, a, d, t, L) ==
    IF c = "GIF_2D"
    THEN SetTitle(PlotPos2D(a, PosAt(d, t), L, TRUE), TimeAt(d, t))
    ELSE SetTitle(PlotPos3D(a, PosAt(d, t), L, TRUE, FALSE).ax, TimeAt(d, t))

InitGIF ==
    /\ call \in GIFs
    /\ data_file \in Datasets
    /\ num_frames \in 0..MaxFrames
    /\ box_dim \in BoxDims
    /\ pos = <<>>
    /\ central_box = TRUE
    /\ outer_boxes = FALSE
    /\ dir \in {"absent", "preexisting"}
    /\ ax = NoAxis

InitPlot ==
    /\ call \in Plots
    /\ data_file = NoDataset
    /\ num_frames = 0
    /\ box_dim \in BoxDims
    /\ pos \in PosArrays
    /\ central_box \in BOOLEAN
    /\ outer_boxes \in (IF call = "plot_pos_3D" THEN BOOLEAN ELSE {FALSE})
    /\ dir = "absent"
    /\ ax = NewAxis(Proj(call))

Init ==
    /\ (InitGIF \/ InitPlot)
    /\ pc = "start"
    /\ save_frame = <<>>
    /\ files = <<>>
    /\ f = 0
    /\ writer = NoWriter
    /\ reads = <<>>
    /\ written = <<>>
    /\ error = "none"
    /\ deletes = 0

args == <<call, data_file, num_frames, box_dim, pos, central_box, outer_boxes>>

\* lines 30-32 / 84-86: load the data, compute the sample plan
Sample ==
    /\ pc = "start" /\ call \in GIFs
    /\ save_frame' = SaveFrame(data_file.tsteps, num_frames)
    /\ pc' = "mkdir"
    /\ UNCHANGED <<args, dir, files, ax, f, writer, reads, written, error, deletes>>

\* lines 34-35 / 88-89
EnsureDir ==
    /\ pc = "mkdir"
    /\ dir' = IF dir = "absent" THEN "created" ELSE dir
    /\ pc' = "figure"
    /\ UNCHANGED <<args, save_frame, files, ax, f, writer, reads, written, error, deletes>>

\* lines 39-40 / 93-94
CreateFigure ==
    /\ pc = "figure"
    /\ ax' = NewAxis(Proj(call))
    /\ f' = 0
    /\ pc' = "frames"
    /\ UNCHANGED <<args, save_frame, dir, files, writer, reads, written, error, deletes>>

\* lines 42-49 / 96-103: one iteration of the frame loop
WriteFrame ==
    /\ pc = "frames" /\ f < Len(save_frame)
    /\ LET t == save_frame[f + 1]
           image == RenderFrame(call, ax, data_file, t, box_dim)
           name == FrameName(call, f, t)
       IN  /\ files' = [n \in DOMAIN files \cup {name} |->
                            IF n = name THEN image ELSE files[n]]
           /\ written' = Append(written, [name |-> name, image |-> image])
           /\ ax' = Cla(image)
    /\ f' = f + 1
    /\ UNCHANGED <<args, pc, save_frame, dir, writer, reads, error, deletes>>

\* line 51 / 105: the loop is over, plt.clf()
ClearFigure ==
    /\ pc = "frames" /\ f = Len(save_frame)
    /\ ax' = NoAxis
    /\ pc' = "writer"
    /\ UNCHANGED <<args, save_frame, dir, files, f, writer, reads, written, error, deletes>>

\* line 55 / 109: 3/num_frames is evaluated, then the writer is opened
OpenWriter ==
    /\ pc = "writer"
    /\ IF DurationDivisor(num_frames) = 0
       THEN /\ error' = "ZeroDivisionError"
            /\ pc' = "failed"
            /\ UNCHANGED <<writer, f>>
       ELSE /\ writer' = [open |-> TRUE,
                          duration |-> <<DurationBudget, DurationDivisor(num_frames)>>,
                          frames |-> <<>>]
            /\ f' = 0
            /\ pc' = "encode"
            /\ UNCHANGED error
    /\ UNCHANGED <<args, save_frame, dir, files, ax, reads, written, deletes>>

\* lines 56-58 / 110-112: one iteration of the encode loop; an exception
\* leaves the with block, which closes the writer
ReadFrame ==
    /\ pc = "encode" /\ f < Len(save_frame)
    /\ LET name == FrameName(call, EncodeIndex(save_frame, f), EncodeIndex(save_frame, f))
           got == Imread(files, name)
       IN  IF got.raised
           THEN /\ error' = "FileNotFoundError"
                /\ pc' = "failed"
                /\ writer' = [writer EXCEPT !.open = FALSE]
                /\ UNCHANGED <<f, reads>>
           ELSE /\ reads' = Append(reads, name)
                /\ writer' = [writer EXCEPT !.frames = Append(@, got.image)]
                /\ f' = f + 1
                /\ UNCHANGED <<error, pc>>
    /\ UNCHANGED <<args, save_frame, dir, files, ax, written, deletes>>

\* line 59 / 113: the with block ends, "DONE"
Finish ==
    /\ pc = "encode" /\ f = Len(save_frame)
    /\ writer' = [writer EXCEPT !.open = FALSE]
    /\ pc' = "done"
    /\ UNCHANGED <<args, save_frame, dir, files, ax, f, reads, written, error, deletes>>

\* another process removes a frame file once the frames are written: before
\* the encode loop reads its first file, or between two of its iterations
DeleteFrame ==
    /\ pc = "encode"
    /\ deletes < MaxDeletes
    /\ \E gone \in DOMAIN files :
           files' = [n \in DOMAIN files \ {gone} |-> files[n]]
    /\ deletes' = deletes + 1
    /\ UNCHANGED <<args, pc, save_frame, dir, ax, f, writer, reads, written, error>>

\* a direct call of plot_pos_2D(ax, pos, L, central_box)
CallPlotPos2D ==
    /\ pc = "start" /\ call = "plot_pos_2D"
    /\ ax' = PlotPos2D(ax, pos, box_dim, central_box)
    /\ pc' = "done"
    /\ UNCHANGED <<args, save_frame, dir, files, f, writer, reads, written, error, deletes>>

\* a direct call of plot_pos_3D(ax, pos, L, central_box, outer_boxes=outer_boxes)
CallPlotPos3D ==
    /\ pc = "start" /\ call = "plot_pos_3D"
    /\ LET r == PlotPos3D(ax, pos, box_dim, central_box, outer_boxes)
       IN  /\ ax' = r.ax
           /\ pc' = IF r.raised THEN "failed" ELSE "done"
           /\ error' = IF r.raised THEN "IndexError" ELSE "none"
    /\ UNCHANGED <<args, save_frame, dir, files, f, writer, reads, written, deletes>>

Next ==
    \/ Sample
    \/ EnsureDir
    \/ CreateFigure
    \/ WriteFrame
    \/ ClearFigure
    \/ OpenWriter
    \/ ReadFrame
    \/ Finish
    \/ DeleteFrame
    \/ CallPlotPos2D
    \/ CallPlotPos3D

Spec == Init /\ [][Next]_vars

\* ================================================================ claims
Tsteps == data_file.tsteps
RunsGIF == call \in GIFs

\* e = floor(a / b), stated without division
IsFloorOf(e, a, b) == e * b <= a /\ a < (e + 1) * b

RECURSIVE DigitsValue(_)
DigitsValue(ds) ==
    IF ds = <<>> THEN 0
    ELSE 10 * DigitsValue(SubSeq(ds, 1, Len(ds) - 1)) + ds[Len(ds)]

\* string order of two frame names: the digits are followed by ".png", and
\* "." sorts before every digit
LexLess(a, b) ==
    LET x == Append(a, -1)
        y == Append(b, -1)
    IN  \E i \in 1..Len(x) :
            /\ i <= Len(y)
            /\ \A j \in 1..(i - 1) : x[j] = y[j]
            /\ x[i] < y[i]

NameLess(m, n) == m.tag = n.tag /\ LexLess(m.digits, n.digits)

Tag == IF call = "GIF_2D" THEN "2D" ELSE "3D"

\* C1: for num_tsteps >= 1 and num_frames >= 2 the sample plan has num_frames
\* entries, all in [0, num_tsteps-1], non-decreasing, entry i (0-based, i <=
\* num_frames-2) is floor(i*(num_tsteps-1)/(num_frames-1)), the last entry is
\* num_tsteps-1; 101 timesteps and 5 frames give [0,25,50,75,100]; more frames
\* than timesteps is accepted and repeats indices.
C1_SamplePlan ==
    (RunsGIF /\ pc # "start" /\ num_frames >= 2) =>
        /\ Len(save_frame) = num_frames
        /\ \A i \in 1..num_frames : save_frame[i] \in 0..(Tsteps - 1)
        /\ \A i \in 1..(num_frames - 1) : save_frame[i] <= save_frame[i + 1]
        /\ \A i \in 1..(num_frames - 1) :
               IsFloorOf(save_frame[i], (i - 1) * (Tsteps - 1), num_frames - 1)
        /\ save_frame[num_frames] = Tsteps - 1
        /\ (Tsteps = 101 /\ num_frames = 5) => save_frame = <<0, 25, 50, 75, 100>>
        /\ num_frames > Tsteps =>
               \E i \in 1..(num_frames - 1) : save_frame[i] = save_frame[i + 1]

C1_Witness ==
    /\ RunsGIF /\ pc = "done"
    /\ Tsteps = 101 /\ num_frames = 5
    /\ save_frame = <<0, 25, 50, 75, 100>>

\* C2 (as claimed): with num_frames = 1 the call fails; no frame file is
\* written, no animation is encoded and the run does not complete.
C2_OneFrameRejected ==
    (RunsGIF /\ num_frames = 1) =>
        /\ written = <<>>
        /\ ~writer.open /\ writer.frames = <<>>
        /\ pc # "done"

\* C2 (amended): with num_frames = 1 nothing is divided (range(0) is empty):
\* the plan is [num_tsteps-1], one frame of the last timestep is written, the
\* call never raises ZeroDivisionError, and a completed run has encoded that
\* one frame with a per-frame duration of 3/1.
C2_OneFrameAccepted ==
    (RunsGIF /\ num_frames = 1) =>
        /\ pc # "start" => save_frame = <<Tsteps - 1>>
        /\ error # "ZeroDivisionError"
        /\ pc = "failed" => (error = "FileNotFoundError" /\ deletes > 0)
        /\ pc = "done" =>
               /\ Len(written) = 1
               /\ written[1].image.title = TimeAt(data_file, Tsteps - 1)
               /\ writer.frames = <<written[1].image>>
               /\ writer.duration = <<DurationBudget, 1>>

C2_Witness ==
    /\ RunsGIF /\ num_frames = 1 /\ pc = "done"
    /\ Len(writer.frames) = 1 /\ Tsteps > 1

C4_RoundTrip ==
    RunsGIF =>
        /\ Len(reads) <= Len(written)
        /\ Len(writer.frames) = Len(reads)
        /\ \A i \in 1..Len(reads) :
               /\ reads[i] = written[i].name
               /\ DigitsValue(reads[i].digits) = i - 1
               /\ writer.frames[i] = written[i].image
        /\ (writer.open \/ reads # <<>>) =>
               (Len(written) = Len(save_frame) /\ pc \in {"encode", "done", "failed"})
        /\ pc = "done" =>
               (Len(reads) = Len(save_frame) /\ Len(written) = Len(save_frame))

C4_Witness ==
    /\ RunsGIF /\ pc = "done" /\ Len(reads) >= 3
    /\ \E j \in 1..Len(save_frame) : save_frame[j] # j - 1

\* the encode loop stands at index f and the file of that index is gone
MissingAtCursor ==
    /\ RunsGIF /\ pc = "encode" /\ f < Len(save_frame)
    /\ written[f + 1].name \notin DOMAIN files

\* C5: when the encode loop reaches an index whose file is missing, the run
\* ends there with FileNotFoundError: that frame is not skipped, nothing more
\* is read or appended, and the run never reaches DONE.
C5_MissingFrameFatal ==
    /\ [](error = "FileNotFoundError" =>
             /\ pc = "failed" /\ ~writer.open
             /\ Len(reads) = f /\ Len(writer.frames) = f
             /\ written[f + 1].name \notin DOMAIN files)
    /\ [][ /\ MissingAtCursor =>
                /\ reads' = reads
                /\ writer'.frames = writer.frames
                /\ f' = f
                /\ pc' \in {"encode", "failed"}
                /\ pc' # pc => error' = "FileNotFoundError"
           /\ pc = "failed" => UNCHANGED <<pc, reads, writer, error>> ]_vars

C5_Witness ==
    /\ RunsGIF /\ pc = "failed" /\ error = "FileNotFoundError"
    /\ f >= 1 /\ f + 1 < Len(save_frame)
    /\ written[f + 2].name \in DOMAIN files

InvalidConfig ==
    /\ RunsGIF
    /\ \/ num_frames <= 1
       \/ box_dim <= 0
       \/ data_file.dim # (IF call = "GIF_2D" THEN 2 ELSE 3)

IsPoint(a) == Len(a.xs) = 1
NumPoints == Cardinality({k \in 1..Len(ax.lines) : IsPoint(ax.lines[k])})

PointOf(a, d) == IF d = 2 THEN <<a.xs[1], a.ys[1]>> ELSE <<a.xs[1], a.ys[1], a.zs[1]>>

\* the K artists drawn for particle i (the particle loop draws K per particle)
Block(i, K) == SubSeq(ax.lines, (i - 1) * K + 1, i * K)

Shift(p, o, d) == [j \in 1..d |-> p[j] + o[j]]

Images(p, L, d) == {Shift(p, o, d) : o \in Tuples({-L, 0, L}, d)}

\* every particle is drawn at exactly its K = 3^d images, each once
ReplicasDrawn(d, K) ==
    /\ NumPoints = K * Len(pos)
    /\ \A i \in 1..Len(pos) :
           LET blk == Block(i, K)
           IN  /\ \A k \in 1..K : IsPoint(blk[k])
               /\ {PointOf(blk[k], d) : k \in 1..K} = Images(pos[i], box_dim, d)
               /\ Cardinality({PointOf(blk[k], d) : k \in 1..K}) = K
               /\ Cardinality({k \in 1..K : PointOf(blk[k], d) = SubSeq(pos[i], 1, d)}) = 1

DimOfPos == IF pos = <<>> THEN 0 ELSE Len(pos[1])

\* C7: with neighbour replicas requested and L > 0, plot_pos_2D
\* (central_box false) draws every particle at exactly the 9 distinct points
\* p + o, o in {-L,0,L}^2, and plot_pos_3D (outer_boxes true) at exactly the 27
\* distinct points p + o, o in {-L,0,L}^3; the true position p is drawn once.
C7_AllReplicasOnce ==
    (pc = "done" /\ box_dim > 0) =>
        /\ (call = "plot_pos_2D" /\ ~central_box /\ DimOfPos = 2) => ReplicasDrawn(2, 9)
        /\ (call = "plot_pos_3D" /\ outer_boxes /\ DimOfPos = 3) => ReplicasDrawn(3, 27)

\* C8 (as claimed): plot_pos_2D with central_box true draws every particle at
\* its true position only.
C8_CentralBoxOnly ==
    (call = "plot_pos_2D" /\ pc = "done" /\ central_box) =>
        /\ NumPoints = Len(pos)
        /\ \A i \in 1..Len(pos) : PointOf(ax.lines[i], 2) = <<pos[i][1], pos[i][2]>>

\* C8 (amended): plot_pos_2D draws every particle at its true position and at
\* all 8 non-zero offsets of {-L,0,L}^2 whatever central_box is; central_box
\* only selects the marker of the true position (black instead of red) and
\* adds the outline of the central box.
C8_NineWhateverCentralBox ==
    (call = "plot_pos_2D" /\ pc = "done") =>
        /\ NumPoints = 9 * Len(pos)
        /\ Len(ax.lines) = 9 * Len(pos) + (IF central_box THEN 1 ELSE 0)
        /\ central_box => ax.lines[Len(ax.lines)] = Outline2D(box_dim)
        /\ \A i \in 1..Len(pos) :
               LET blk == Block(i, 9)
                   p == <<pos[i][1], pos[i][2]>>
               IN  /\ {PointOf(blk[k], 2) : k \in 1..9} = Images(p, box_dim, 2)
                   /\ PointOf(blk[1], 2) = p
                   /\ blk[1].fmt = IF central_box THEN "k." ELSE "r."
                   /\ \A k \in 2..9 : blk[k].fmt = "r."
                   /\ box_dim # 0 => \A k \in 2..9 : PointOf(blk[k], 2) # p

C8_Witness ==
    /\ call = "plot_pos_2D" /\ pc = "done" /\ central_box
    /\ Len(pos) >= 1 /\ box_dim > 0
    /\ Len(ax.lines) = 9 * Len(pos) + 1

\* C9: when plot_pos_3D returns, the limits of all three axes are [-L, 2L] if
\* outer_boxes is true and a particle was drawn, and [0, L] otherwise.
C9_AxisLimits3D ==
    (call = "plot_pos_3D" /\ pc = "done") =>
        LET lim == IF outer_boxes /\ Len(pos) >= 1
                   THEN <<-box_dim, 2 * box_dim, 1>>
                   ELSE <<0, box_dim, 1>>
        IN  ax.xlim = lim /\ ax.ylim = lim /\ ax.zlim = lim

\* C10: the reused axis is empty whenever a frame's rendering starts, so the
\* file of sequence index k holds exactly what rendering timestep save_frame[k]
\* on an empty axis gives (its points, the outline, its title) and nothing of
\* an earlier frame.
C10_FrameIsolation ==
    RunsGIF =>
        /\ pc = "frames" => ax = NewAxis(Proj(call))
        /\ \A k \in 1..Len(written) :
               /\ written[k].image =
                      RenderFrame(call, NewAxis(Proj(call)), data_file,
                                  save_frame[k], box_dim)
               /\ written[k].image.title = TimeAt(data_file, save_frame[k])
               /\ Len(written[k].image.lines) =
                      IF call = "GIF_2D" THEN 9 * data_file.n + 1 ELSE data_file.n + 5

C10_Witness ==
    /\ RunsGIF /\ pc = "frames" /\ Len(written) >= 2
    /\ data_file.n >= 1
    /\ save_frame[1] # save_frame[2]

====
